---- MODULE Spec2Model ----
(***************************************************************************)
(* Retrieval core of the health-enrollment assistant's ingestion code:     *)
(*   src/src/ingestion/faiss_indexer.py  build / save / load / search       *)
(*   src/src/ingestion/chunker.py        chunk_text / chunk_text_smart /    *)
(*                                       chunk_pages                        *)
(*   src/src/ingestion/metadata_tagger.py  generate_chunk_id / tag_chunks   *)
(*                                                                         *)
(* Python exceptions keep their Python names.  The specification's error   *)
(* taxonomy maps onto them as the code uses them:                          *)
(*   EmptyInputError, SchemaError, ConfigError -> ValueError               *)
(*   NotFoundError                             -> FileNotFoundError        *)
(*   ConsistencyError                          -> (no exception in code)   *)
(* Vectors are float32 arrays whose components are small integers (exact   *)
(* in float32); distances are FAISS's squared L2 distances.                *)
(***************************************************************************)
EXTENDS Integers, Sequences, FiniteSets, TLC

VARIABLES
    corpus,           \* the embedded chunks the pipeline run holds
    index,            \* the index returned by the last successful build
    metadata,         \* the metadata list returned with it
    disk,             \* location -> the two persisted artifacts
    loaded_index,     \* the pair returned by the last successful load_index
    loaded_metadata,
    out,              \* the outcome of the last call
    text,             \* chunker input
    chunk_size,
    overlap,
    chunks,           \* chunker output, with the mode that produced it
    pages,            \* the cleaned pages handed to chunk_pages
    all_chunks,       \* [list |-> the list chunk_pages returned], tagged in place
    pdf_files,        \* the documents find_pdf_files lists for a pipeline run
    searches          \* thread -> where its search_index call stands

ivars == <<corpus, index, metadata, disk, loaded_index, loaded_metadata, out>>
cvars == <<text, chunk_size, overlap, chunks>>
pvars == <<pages, all_chunks, pdf_files>>
svars == <<searches>>
vars == <<corpus, index, metadata, disk, loaded_index, loaded_metadata, out,
          text, chunk_size, overlap, chunks, pages, all_chunks, pdf_files, searches>>

(***************************************************************************)
(* Bounds of the model.                                                    *)
(***************************************************************************)
MaxChunks == 2
MaxK == 3

\* Python's None for a variable that holds no object yet.
None == [kind |-> "None"]
Absent == [kind |-> "absent"]

\* Components of the vectors and the dimensions in play.
Vectors == {<<0>>, <<2>>, <<0, 0>>}
NoEmbedding == <<>>
Dims == {1, 2}
IndexTypes == {"flat", "ivf", "hnsw"}
IndexPaths == {"index.faiss", "index-v2.faiss"}
MetadataPaths == {"metadata.json"}

\* chunk_id of the chunk at position i of the corpus (unique per position).
ChunkIdTable == <<"doc-p1-c0", "doc-p1-c1", "doc-p1-c2", "doc-p1-c3", "doc-p1-c4">>

\* A chunk dict: with or without its 'embedding' key.
ChunkAt(i, e) ==
    IF e = NoEmbedding
    THEN [chunk_id |-> ChunkIdTable[i], chunk_index |-> i - 1]
    ELSE [chunk_id |-> ChunkIdTable[i], chunk_index |-> i - 1, embedding |-> e]

CorporaOver(embs) ==
    {[i \in DOMAIN es |-> ChunkAt(i, es[i])] :
        es \in UNION {[1..n -> embs] : n \in 1..MaxChunks}}

\* Corpora of embedded chunks of the configured dimension, and corpora in
\* which a chunk may lack its embedding or carry one of another dimension.
EmbeddedCorpora == CorporaOver({v \in Vectors : Len(v) = 1})
Corpora == CorporaOver(Vectors \cup {NoEmbedding})

(***************************************************************************)
(* FAISS index objects.                                                    *)
(***************************************************************************)
Raise(e) == [status |-> e]

\* faiss.IndexFlatL2(d) / faiss.IndexIVFFlat(quantizer, d, 100)
create_faiss_index(dimension, index_type) ==
    IF index_type = "flat"
    THEN [status |-> "ok",
          index |-> [kind |-> "flat", d |-> dimension, is_trained |-> TRUE, xb |-> <<>>]]
    ELSE IF index_type = "ivf"
    THEN [status |-> "ok",
          index |-> [kind |-> "ivf", d |-> dimension, is_trained |-> FALSE, xb |-> <<>>]]
    ELSE Raise("ValueError")

ntotal(ix) == Len(ix.xb)

\* Whether np.array(list of vectors) is a rectangular (n, d) array.
Rectangular(embeddings) ==
    \A i \in DOMAIN embeddings : Len(embeddings[i]) = Len(embeddings[1])

\* Mutant: vectors are accepted whether the index is trained or not.
add_embeddings_to_index_untrained(ix, embeddings) ==
    IF Len(embeddings[1]) # ix.d THEN Raise("AssertionError")
    ELSE [status |-> "ok", index |-> [ix EXCEPT !.xb = ix.xb \o embeddings]]

\* index.add(embeddings): the binding asserts the row width, the C++ index
\* refuses vectors while untrained; vectors are appended in row order.
add_embeddings_to_index(ix, embeddings) ==
    IF Len(embeddings[1]) # ix.d THEN Raise("AssertionError")
    ELSE IF ~ix.is_trained THEN Raise("RuntimeError")
    ELSE [status |-> "ok", index |-> [ix EXCEPT !.xb = ix.xb \o embeddings]]

\* Mutant: the metadata record keeps every key of the chunk.
StripEmbeddingKeepsAll(chunk) == chunk

\* {k: v for k, v in chunk.items() if k != 'embedding'}
StripEmbedding(chunk) == [k \in (DOMAIN chunk) \ {"embedding"} |-> chunk[k]]

\* build_index_from_chunks: the exception raised, or the (index, metadata) pair.
\* Mutant: an empty list is not refused; the index is created and returned
\* with nothing in it.
build_index_from_chunks_accepts_empty(cs, dimension, index_type) ==
    IF cs = <<>>
    THEN LET c == create_faiss_index(dimension, index_type)
         IN IF c.status # "ok" THEN c
            ELSE [status |-> "ok", index |-> c.index, metadata |-> <<>>]
    ELSE IF "embedding" \notin DOMAIN cs[1] THEN Raise("ValueError")
    ELSE IF \E i \in DOMAIN cs : "embedding" \notin DOMAIN cs[i] THEN Raise("KeyError")
    ELSE LET embeddings == [i \in DOMAIN cs |-> cs[i].embedding]
         IN IF ~Rectangular(embeddings) THEN Raise("ValueError")
            ELSE LET c == create_faiss_index(dimension, index_type)
                 IN IF c.status # "ok" THEN c
                    ELSE LET a == add_embeddings_to_index(c.index, embeddings)
                         IN IF a.status # "ok" THEN a
                            ELSE [status |-> "ok", index |-> a.index,
                                  metadata |-> [i \in DOMAIN cs |-> StripEmbedding(cs[i])]]

build_index_from_chunks(cs, dimension, index_type) ==
    IF cs = <<>> THEN Raise("ValueError")
    ELSE IF "embedding" \notin DOMAIN cs[1] THEN Raise("ValueError")
    ELSE IF \E i \in DOMAIN cs : "embedding" \notin DOMAIN cs[i] THEN Raise("KeyError")
    ELSE LET embeddings == [i \in DOMAIN cs |-> cs[i].embedding]
         IN IF ~Rectangular(embeddings) THEN Raise("ValueError")
            ELSE LET c == create_faiss_index(dimension, index_type)
                 IN IF c.status # "ok" THEN c
                    ELSE LET a == add_embeddings_to_index(c.index, embeddings)
                         IN IF a.status # "ok" THEN a
                            ELSE [status |-> "ok", index |-> a.index,
                                  metadata |-> [i \in DOMAIN cs |-> StripEmbedding(cs[i])]]

(***************************************************************************)
(* Persistence: faiss.write_index / faiss.read_index, json.dump / json.load *)
(***************************************************************************)
\* Row-major concatenation of the stored vectors (IndexFlat's codes array).
RECURSIVE Flatten(_)
Flatten(rows) ==
    IF rows = <<>> THEN <<>> ELSE Head(rows) \o Flatten(Tail(rows))

\* faiss.write_index: header fields, then ntotal * d floats.
write_index(ix) ==
    [fourcc |-> IF ix.kind = "flat" THEN "IxF2" ELSE "IwFl",
     d |-> ix.d, ntotal |-> ntotal(ix), is_trained |-> ix.is_trained,
     codes |-> Flatten(ix.xb)]

\* faiss.read_index: rebuilds the index, cutting the floats into rows of d.
read_index(f) ==
    [kind |-> IF f.fourcc = "IxF2" THEN "flat" ELSE "ivf",
     d |-> f.d, is_trained |-> f.is_trained,
     xb |-> [i \in 1..f.ntotal |-> SubSeq(f.codes, (i - 1) * f.d + 1, i * f.d)]]

\* The keys whose values are Python ints; every other value is a str.
IntKeys == {"chunk_index", "page_num", "rank"}

\* Mutant: members whose value is not a str are left out of the object.
JsonDumpStringsOnly(md) ==
    [i \in DOMAIN md |->
        {<<k, [string |-> md[i][k]]>> : k \in (DOMAIN md[i]) \ IntKeys}]

\* json.dump(metadata): a list of objects, each a set of (key, literal) members;
\* an int is written as a number literal, a str as a string literal.
JsonDump(md) ==
    [i \in DOMAIN md |->
        {<<k, IF k \in IntKeys THEN [number |-> md[i][k]] ELSE [string |-> md[i][k]]>> :
            k \in DOMAIN md[i]}]

JsonLiteralValue(lit) ==
    IF "number" \in DOMAIN lit THEN lit.number ELSE lit.string

\* json.load: a list of dicts.
JsonLoad(js) ==
    [i \in DOMAIN js |->
        [k \in {m[1] : m \in js[i]} |->
            JsonLiteralValue((CHOOSE m \in js[i] : m[1] = k)[2])]]

(***************************************************************************)
(* Search: IndexFlatL2.search through the Python binding, then the loop of  *)
(* search_index over the labels it returns.                                *)
(***************************************************************************)
RECURSIVE L2sqr(_, _)
L2sqr(x, y) ==
    IF x = <<>> THEN 0
    ELSE (Head(x) - Head(y)) * (Head(x) - Head(y)) + L2sqr(Tail(x), Tail(y))

\* The distance FAISS reports in a slot that holds no neighbour.
FltMax == 2 ^ 30

\* Mutant: among equal distances the later inserted vector comes first.
IndexSearchTiesLast(ix, q, k) ==
    IF Len(q) # ix.d THEN Raise("AssertionError")
    ELSE IF ~(k > 0) THEN Raise("AssertionError")
    ELSE LET n == ntotal(ix)
             dist(i) == L2sqr(ix.xb[i], q)
             Before(i, j) == dist(i) < dist(j) \/ (dist(i) = dist(j) /\ i > j)
             slot(i) == 1 + Cardinality({j \in 1..n : Before(j, i)})
             at(r) == CHOOSE i \in 1..n : slot(i) = r
         IN [status |-> "ok",
             indices |-> [r \in 1..k |-> IF r <= n THEN at(r) - 1 ELSE -1],
             distances |-> [r \in 1..k |-> IF r <= n THEN dist(at(r)) ELSE FltMax]]

\* Mutant: the slots hold the stored vectors in insertion order, unsorted.
IndexSearchUnsorted(ix, q, k) ==
    IF Len(q) # ix.d THEN Raise("AssertionError")
    ELSE IF ~(k > 0) THEN Raise("AssertionError")
    ELSE LET n == ntotal(ix)
         IN [status |-> "ok",
             indices |-> [r \in 1..k |-> IF r <= n THEN r - 1 ELSE -1],
             distances |-> [r \in 1..k |->
                               IF r <= n THEN L2sqr(ix.xb[r], q) ELSE FltMax]]

\* index.search(x, k) for one query on a flat index: the binding asserts the
\* query width and k > 0; the k slots hold the stored vectors by increasing
\* (distance, label), the label being the insertion position, and the slots
\* past ntotal hold label -1.
IndexSearch(ix, q, k) ==
    IF Len(q) # ix.d THEN Raise("AssertionError")
    ELSE IF ~(k > 0) THEN Raise("AssertionError")
    ELSE LET n == ntotal(ix)
             dist(i) == L2sqr(ix.xb[i], q)
             Before(i, j) == dist(i) < dist(j) \/ (dist(i) = dist(j) /\ i < j)
             slot(i) == 1 + Cardinality({j \in 1..n : Before(j, i)})
             at(r) == CHOOSE i \in 1..n : slot(i) = r
         IN [status |-> "ok",
             indices |-> [r \in 1..k |-> IF r <= n THEN at(r) - 1 ELSE -1],
             distances |-> [r \in 1..k |-> IF r <= n THEN dist(at(r)) ELSE FltMax]]

\* result = metadata[idx].copy(); result['score'] = ...; result['rank'] = ...
ResultOf(meta, distance, rank) ==
    [k \in (DOMAIN meta) \cup {"score", "rank"} |->
        IF k = "score" THEN distance ELSE IF k = "rank" THEN rank ELSE meta[k]]

\* Mutant: the loop does not skip label -1, so metadata[-1], the last record,
\* fills the slot.
RECURSIVE SearchLoopNoSkip(_, _, _, _, _)
SearchLoopNoSkip(indices, distances, md, pos, results) ==
    IF pos > Len(indices)
    THEN [status |-> "ok", results |-> results, metadata |-> md]
    ELSE LET at == IF indices[pos] = -1 THEN Len(md) ELSE indices[pos] + 1
         IN IF at > Len(md) \/ at < 1
            THEN [status |-> "IndexError", results |-> <<>>, metadata |-> md]
            ELSE SearchLoopNoSkip(indices, distances, md, pos + 1,
                                  Append(results,
                                         ResultOf(md[at], distances[pos], pos - 1)))

\* The for loop of search_index from slot pos on (rank = pos - 1).
RECURSIVE SearchLoop(_, _, _, _, _)
SearchLoop(indices, distances, md, pos, results) ==
    IF pos > Len(indices)
    THEN [status |-> "ok", results |-> results, metadata |-> md]
    ELSE IF indices[pos] = -1
    THEN SearchLoop(indices, distances, md, pos + 1, results)
    ELSE IF indices[pos] + 1 > Len(md)
    THEN [status |-> "IndexError", results |-> <<>>, metadata |-> md]
    ELSE SearchLoop(indices, distances, md, pos + 1,
                    Append(results,
                           ResultOf(md[indices[pos] + 1], distances[pos], pos - 1)))

\* Mutant: the record of the list is updated itself, no copy is taken.
SearchIterationInPlace(md, results, idx, distance, rank) ==
    IF idx = -1 THEN [status |-> "ok", results |-> results, metadata |-> md]
    ELSE IF idx + 1 > Len(md)
    THEN [status |-> "IndexError", results |-> <<>>, metadata |-> md]
    ELSE [status |-> "ok",
          results |-> Append(results, ResultOf(md[idx + 1], distance, rank)),
          metadata |-> [md EXCEPT ![idx + 1] = ResultOf(md[idx + 1], distance, rank)]]

\* One pass of the for loop of search_index: the results and the metadata
\* list after it.  Label -1 is skipped; metadata[idx] outside the list raises
\* IndexError; score and rank are set on a copy of the record.
SearchIteration(md, results, idx, distance, rank) ==
    IF idx = -1 THEN [status |-> "ok", results |-> results, metadata |-> md]
    ELSE IF idx + 1 > Len(md)
    THEN [status |-> "IndexError", results |-> <<>>, metadata |-> md]
    ELSE [status |-> "ok",
          results |-> Append(results, ResultOf(md[idx + 1], distance, rank)),
          metadata |-> md]

\* search_index(index, metadata, query_embedding, top_k): the status, the
\* results returned and the metadata list as the call leaves it.
search_index_result(ix, md, q, k) ==
    LET s == IndexSearch(ix, q, k)
    IN IF s.status # "ok"
       THEN [status |-> s.status, results |-> <<>>, metadata |-> md]
       ELSE SearchLoop(s.indices, s.distances, md, 1, <<>>)

\* The calls drawn: every query of the index's dimension with every top_k of
\* 0..MaxK, one negative top_k and one query of another dimension.
Queries == {<<0>>, <<1>>, <<2>>}
SearchInputs ==
    {<<q, k>> : q \in Queries, k \in 0..MaxK} \cup {<<<<0>>, -1>>, <<<<0, 0>>, 1>>}

(***************************************************************************)
(* Chunker.  A str is a sequence of one-character strings.                 *)
(***************************************************************************)
Whitespace == {" ", "\n", "\t"}
Punctuation == {".", "!", "?", ":"}
Alphabet == {"a", " ", "\n", "."}

Min(a, b) == IF a < b THEN a ELSE b

\* text[start:end] for 0 <= start, 0 <= end (Python clamps end to len(text)).
Slice(t, start, end) == SubSeq(t, start + 1, Min(end, Len(t)))

\* bool(s.strip()): s holds a character that is not whitespace.
StripTruthy(s) == \E i \in DOMAIN s : s[i] \notin Whitespace

\* s.strip()
Strip(s) ==
    IF ~StripTruthy(s) THEN <<>>
    ELSE LET first == CHOOSE i \in DOMAIN s :
                         /\ s[i] \notin Whitespace
                         /\ \A j \in 1..(i - 1) : s[j] \in Whitespace
             last == CHOOSE i \in DOMAIN s :
                         /\ s[i] \notin Whitespace
                         /\ \A j \in (i + 1)..Len(s) : s[j] \in Whitespace
         IN SubSeq(s, first, last)

\* Mutant: the loop stops at the first window that reaches past the text.
RECURSIVE ChunkLoopFullWindows(_, _, _, _, _)
ChunkLoopFullWindows(t, size, ov, start, acc) ==
    IF ~(start + size <= Len(t)) THEN acc
    ELSE LET end == start + size
             chunk == Slice(t, start, end)
             acc1 == IF StripTruthy(chunk) THEN Append(acc, chunk) ELSE acc
             next == IF ov >= size THEN end ELSE end - ov
         IN ChunkLoopFullWindows(t, size, ov, next, acc1)

\* The while loop of chunk_text, from window start `start` (0-based) on.
RECURSIVE ChunkLoop(_, _, _, _, _)
ChunkLoop(t, size, ov, start, acc) ==
    IF ~(start < Len(t)) THEN acc
    ELSE LET end == start + size
             chunk == Slice(t, start, end)
             acc1 == IF StripTruthy(chunk) THEN Append(acc, chunk) ELSE acc
             next == IF ov >= size THEN end ELSE end - ov
         IN ChunkLoop(t, size, ov, next, acc1)

chunk_text(t, size, ov) ==
    IF t = <<>> THEN <<>>
    ELSE IF Len(t) <= size THEN <<t>>
    ELSE ChunkLoop(t, size, ov, 0, <<>>)

\* The end (1-based, inclusive) of the whitespace run that starts at i.
RECURSIVE RunEnd(_, _)
RunEnd(t, i) ==
    IF i + 1 <= Len(t) /\ t[i + 1] \in Whitespace THEN RunEnd(t, i + 1) ELSE i

\* Mutant: the text is split after every run of whitespace.
RECURSIVE SplitAtWhitespace(_, _, _)
SplitAtWhitespace(t, from, i) ==
    IF i > Len(t) THEN <<SubSeq(t, from, Len(t))>>
    ELSE IF t[i] \in Whitespace
    THEN LET e == RunEnd(t, i)
         IN <<SubSeq(t, from, e)>> \o SplitAtWhitespace(t, e + 1, e + 1)
    ELSE SplitAtWhitespace(t, from, i + 1)

\* re.split(r'([.!?:]\s+)', text) with each delimiter rejoined to the piece
\* before it: the pieces from position i on, `from` being where the current
\* piece began.  The last piece carries no delimiter and may be empty.
RECURSIVE SplitSentences(_, _, _)
SplitSentences(t, from, i) ==
    IF i > Len(t) THEN <<SubSeq(t, from, Len(t))>>
    ELSE IF t[i] \in Punctuation /\ i + 1 <= Len(t) /\ t[i + 1] \in Whitespace
    THEN LET e == RunEnd(t, i + 1)
         IN <<SubSeq(t, from, e)>> \o SplitSentences(t, e + 1, e + 1)
    ELSE SplitSentences(t, from, i + 1)

\* sentences = [s for s in sentences if s.strip()]
Sentences(t) == SelectSeq(SplitSentences(t, 1, 1), StripTruthy)

\* current_chunk[-overlap:]
LastChars(s, n) == SubSeq(s, Len(s) - n + 1, Len(s))

\* Mutant: the budget is ignored, every sentence is appended to the one chunk.
RECURSIVE PackLoopNoBudget(_, _, _, _, _)
PackLoopNoBudget(ss, size, ov, current_chunk, acc) ==
    IF ss = <<>>
    THEN IF StripTruthy(current_chunk) THEN Append(acc, Strip(current_chunk)) ELSE acc
    ELSE PackLoopNoBudget(Tail(ss), size, ov, current_chunk \o Head(ss), acc)

\* The for loop of chunk_text_smart over the sentences left, then the flush
\* of the last chunk.
RECURSIVE PackLoop(_, _, _, _, _)
PackLoop(ss, size, ov, current_chunk, acc) ==
    IF ss = <<>>
    THEN IF StripTruthy(current_chunk) THEN Append(acc, Strip(current_chunk)) ELSE acc
    ELSE LET sentence == Head(ss)
         IN IF Len(current_chunk) + Len(sentence) > size
            THEN IF StripTruthy(current_chunk)
                 THEN PackLoop(Tail(ss), size, ov,
                               IF ov > 0 /\ Len(current_chunk) > ov
                               THEN LastChars(current_chunk, ov) \o sentence
                               ELSE sentence,
                               Append(acc, Strip(current_chunk)))
                 ELSE PackLoop(Tail(ss), size, ov, sentence, acc)
            ELSE PackLoop(Tail(ss), size, ov, current_chunk \o sentence, acc)

\* Mutant: no shortcut for a text within the budget; it is packed like any other.
chunk_text_smart_no_shortcut(t, size, ov) ==
    IF t = <<>> THEN <<>>
    ELSE PackLoop(Sentences(t), size, ov, <<>>, <<>>)

\* Mutant: the text is cut into windows as in simple mode.
chunk_text_smart_windows(t, size, ov) == chunk_text(t, size, ov)

chunk_text_smart(t, size, ov) ==
    IF t = <<>> THEN <<>>
    ELSE IF Len(t) <= size THEN <<t>>
    ELSE PackLoop(Sentences(t), size, ov, <<>>, <<>>)

(***************************************************************************)
(* chunk_text_smart once more, each character carried as its position in   *)
(* the text (1-based) instead of its value: the same split, the same loop, *)
(* and for every emitted chunk the positions it is made of, the sentences  *)
(* that were appended to its buffer and the length of the seed taken from  *)
(* the buffer before.                                                      *)
(***************************************************************************)
\* The pieces of SplitSentences as <<first, last>> positions; the empty last
\* piece is <<Len(t) + 1, Len(t)>>.
RECURSIVE SplitSpans(_, _, _)
SplitSpans(t, from, i) ==
    IF i > Len(t) THEN <<<<from, Len(t)>>>>
    ELSE IF t[i] \in Punctuation /\ i + 1 <= Len(t) /\ t[i + 1] \in Whitespace
    THEN LET e == RunEnd(t, i + 1)
         IN <<<<from, e>>>> \o SplitSpans(t, e + 1, e + 1)
    ELSE SplitSpans(t, from, i + 1)

SpanText(t, sp) == SubSeq(t, sp[1], sp[2])

\* sentences = [s for s in sentences if s.strip()]
SentenceSpans(t) ==
    SelectSeq(SplitSpans(t, 1, 1), LAMBDA sp : StripTruthy(SpanText(t, sp)))

Positions(sp) == [k \in 1..(sp[2] - sp[1] + 1) |-> sp[1] + k - 1]

\* The str a sequence of positions stands for.
TextOf(t, prov) == [k \in 1..Len(prov) |-> t[prov[k]]]

\* The positions left by .strip()
StripPositions(t, prov) ==
    LET s == TextOf(t, prov)
    IN IF ~StripTruthy(s) THEN <<>>
       ELSE LET first == CHOOSE i \in DOMAIN s :
                            /\ s[i] \notin Whitespace
                            /\ \A j \in 1..(i - 1) : s[j] \in Whitespace
                last == CHOOSE i \in DOMAIN s :
                            /\ s[i] \notin Whitespace
                            /\ \A j \in (i + 1)..Len(s) : s[j] \in Whitespace
            IN SubSeq(prov, first, last)

\* chunks.append(current_chunk.strip())
ClosedChunk(t, cur) ==
    [prov |-> StripPositions(t, cur.prov), units |-> cur.units, seed |-> cur.seed]

EmptyBuffer == [prov |-> <<>>, units |-> <<>>, seed |-> 0]

RECURSIVE PackSpans(_, _, _, _, _, _)
PackSpans(t, sps, size, ov, cur, acc) ==
    IF sps = <<>>
    THEN IF StripTruthy(TextOf(t, cur.prov)) THEN Append(acc, ClosedChunk(t, cur))
         ELSE acc
    ELSE LET sentence == Positions(Head(sps))
         IN IF Len(cur.prov) + Len(sentence) > size
            THEN IF StripTruthy(TextOf(t, cur.prov))
                 THEN PackSpans(t, Tail(sps), size, ov,
                                IF ov > 0 /\ Len(cur.prov) > ov
                                THEN [prov |-> LastChars(cur.prov, ov) \o sentence,
                                      units |-> <<Head(sps)>>, seed |-> ov]
                                ELSE [prov |-> sentence, units |-> <<Head(sps)>>,
                                      seed |-> 0],
                                Append(acc, ClosedChunk(t, cur)))
                 ELSE PackSpans(t, Tail(sps), size, ov,
                                [prov |-> sentence, units |-> <<Head(sps)>>,
                                 seed |-> 0], acc)
            ELSE PackSpans(t, Tail(sps), size, ov,
                           [prov |-> cur.prov \o sentence,
                            units |-> Append(cur.units, Head(sps)),
                            seed |-> cur.seed], acc)

chunk_text_smart_spans(t, size, ov) ==
    IF t = <<>> THEN <<>>
    ELSE IF Len(t) <= size
    THEN <<[prov |-> Positions(<<1, Len(t)>>), units |-> SentenceSpans(t), seed |-> 0]>>
    ELSE PackSpans(t, SentenceSpans(t), size, ov, EmptyBuffer, <<>>)

MaxTextLen == 4
MaxChunkSize == 3
MaxOverlap == 3

Texts == UNION {[1..n -> Alphabet] : n \in 0..MaxTextLen}

\* Texts put together from sentence-sized pieces, for the smart mode, and the
\* call of the function's docstring.
MaxPieces == 3
MaxSmartSize == 4
Pieces == {<<"a">>, <<" ">>, <<".", " ">>, <<"a", ".", " ">>,
           <<"a", "a", "a", "a", "a">>}

RECURSIVE Concat(_)
Concat(ps) == IF ps = <<>> THEN <<>> ELSE Head(ps) \o Concat(Tail(ps))

PiecedTexts == {Concat(ps) : ps \in UNION {[1..n -> Pieces] : n \in 0..MaxPieces}}

DocText ==
    <<"F", "i", "r", "s", "t", " ", "s", "e", "n", "t", "e", "n", "c", "e", ".", " ",
      "S", "e", "c", "o", "n", "d", " ", "s", "e", "n", "t", "e", "n", "c", "e", ".", " ",
      "T", "h", "i", "r", "d", " ", "s", "e", "n", "t", "e", "n", "c", "e", ".">>
DocChunkSize == 30
DocOverlap == 5

SmartInputs ==
    (PiecedTexts \X (1..MaxSmartSize) \X (0..MaxOverlap))
        \cup {<<DocText, DocChunkSize, DocOverlap>>}

(***************************************************************************)
(* chunk_pages and the metadata tagger.  A dict is a record; file names    *)
(* and ids are str like the texts.                                         *)
(***************************************************************************)
Unknown == <<"u", "n", "k", "n", "o", "w", "n">>

\* page.get(key, default)
PageGet(page, key, default) == IF key \in DOMAIN page THEN page[key] ELSE default

\* The chunk dicts of one page: enumerate(page_chunks).
PageChunkDicts(page, page_chunks) ==
    [i \in 1..Len(page_chunks) |->
        [text |-> page_chunks[i],
         source |-> PageGet(page, "source", Unknown),
         page_num |-> PageGet(page, "page_num", 0),
         chunk_index |-> i - 1]]

\* chunk_pages(pages, chunk_size, overlap, smart): the list returned.
RECURSIVE chunk_pages_result(_, _, _, _)
chunk_pages_result(ps, size, ov, smart) ==
    IF ps = <<>> THEN <<>>
    ELSE LET page == Head(ps)
             page_text == PageGet(page, "text", <<>>)
             page_chunks == IF smart THEN chunk_text_smart(page_text, size, ov)
                            ELSE chunk_text(page_text, size, ov)
         IN (IF ~StripTruthy(page_text) THEN <<>>
             ELSE PageChunkDicts(page, page_chunks))
                \o chunk_pages_result(Tail(ps), size, ov, smart)

\* str.replace(old, ''): every occurrence of old, left to right, is removed;
\* what a removal joins is not scanned again.
RECURSIVE RemoveAll(_, _)
RemoveAll(s, old) ==
    IF Len(s) < Len(old) THEN s
    ELSE IF SubSeq(s, 1, Len(old)) = old
    THEN RemoveAll(SubSeq(s, Len(old) + 1, Len(s)), old)
    ELSE <<Head(s)>> \o RemoveAll(Tail(s), old)

\* The characters re.sub(r'[^a-zA-Z0-9-_]', '-', ...) leaves alone.
IdChars ==
    {"-", "0", "1", "2", "3", "4", "5", "6", "7", "8", "9", "A", "B",
     "C", "D", "E", "F", "G", "H", "I", "J", "K", "L", "M", "N", "O",
     "P", "Q", "R", "S", "T", "U", "V", "W", "X", "Y", "Z", "_", "a",
     "b", "c", "d", "e", "f", "g", "h", "i", "j", "k", "l", "m", "n",
     "o", "p", "q", "r", "s", "t", "u", "v", "w", "x", "y", "z"}

PrefixLen == 20

DigitChar == <<"0", "1", "2", "3", "4", "5", "6", "7", "8", "9">>

\* str(n) of an int
RECURSIVE IntStr(_)
IntStr(n) ==
    IF n < 0 THEN <<"-">> \o IntStr(0 - n)
    ELSE IF n < 10 THEN <<DigitChar[n + 1]>>
    ELSE IntStr(n \div 10) \o <<DigitChar[(n % 10) + 1]>>

generate_chunk_id(source, page_num, chunk_index) ==
    LET stem == RemoveAll(RemoveAll(source, <<".", "p", "d", "f">>),
                          <<".", "P", "D", "F">>)
        cut == Slice(stem, 0, PrefixLen)
        source_prefix == [i \in 1..Len(cut) |->
                             IF cut[i] \in IdChars THEN cut[i] ELSE "-"]
    IN source_prefix \o <<"-", "p">> \o IntStr(page_num)
           \o <<"-", "c">> \o IntStr(chunk_index)

\* dict item assignment chunk[key] = value
SetItem(chunk, key, value) ==
    [k \in DOMAIN chunk \cup {key} |-> IF k = key THEN value ELSE chunk[k]]

\* Mutant: a chunk that carries a chunk_id gets its new id from that id.
add_metadata_to_chunk_from_id(chunk, state, doc_type) ==
    LET chunk_id == generate_chunk_id(IF "chunk_id" \in DOMAIN chunk
                                      THEN chunk.chunk_id ELSE chunk.source,
                                      chunk.page_num, chunk.chunk_index)
    IN SetItem(SetItem(SetItem(chunk, "state", IF state # <<>> THEN state ELSE Unknown),
                       "doc_type", doc_type), "chunk_id", chunk_id)

\* add_metadata_to_chunk(chunk, state, doc_type) with both tags given by the
\* caller (neither is None, so nothing is inferred from the file name).
add_metadata_to_chunk(chunk, state, doc_type) ==
    LET chunk_id == generate_chunk_id(chunk.source, chunk.page_num, chunk.chunk_index)
    IN SetItem(SetItem(SetItem(chunk, "state", IF state # <<>> THEN state ELSE Unknown),
                       "doc_type", doc_type), "chunk_id", chunk_id)

\* The tag inference of the metadata tagger.
LowerLetters ==
    <<"a", "b", "c", "d", "e", "f", "g", "h", "i", "j", "k", "l", "m",
      "n", "o", "p", "q", "r", "s", "t", "u", "v", "w", "x", "y", "z">>
UpperLetters ==
    <<"A", "B", "C", "D", "E", "F", "G", "H", "I", "J", "K", "L", "M",
      "N", "O", "P", "Q", "R", "S", "T", "U", "V", "W", "X", "Y", "Z">>

\* str.upper() and str.lower() on ASCII text
ToUpper(s) ==
    [i \in 1..Len(s) |->
        IF \E k \in 1..26 : LowerLetters[k] = s[i]
        THEN UpperLetters[CHOOSE k \in 1..26 : LowerLetters[k] = s[i]]
        ELSE s[i]]
ToLower(s) ==
    [i \in 1..Len(s) |->
        IF \E k \in 1..26 : UpperLetters[k] = s[i]
        THEN LowerLetters[CHOOSE k \in 1..26 : UpperLetters[k] = s[i]]
        ELSE s[i]]

\* The characters \w matches, which decide where \b does.
WordChars == IdChars \ {"-"}

\* sub in s
Contains(s, sub) ==
    \E i \in 0..(Len(s) - Len(sub)) : SubSeq(s, i + 1, i + Len(sub)) = sub

StateCodes ==
    <<<<"A", "L">>, <<"A", "K">>, <<"A", "Z">>, <<"A", "R">>, <<"C", "A">>,
      <<"C", "O">>, <<"C", "T">>, <<"D", "E">>, <<"F", "L">>, <<"G", "A">>,
      <<"H", "I">>, <<"I", "D">>, <<"I", "L">>, <<"I", "N">>, <<"I", "A">>,
      <<"K", "S">>, <<"K", "Y">>, <<"L", "A">>, <<"M", "E">>, <<"M", "D">>,
      <<"M", "A">>, <<"M", "I">>, <<"M", "N">>, <<"M", "S">>, <<"M", "O">>,
      <<"M", "T">>, <<"N", "E">>, <<"N", "V">>, <<"N", "H">>, <<"N", "J">>,
      <<"N", "M">>, <<"N", "Y">>, <<"N", "C">>, <<"N", "D">>, <<"O", "H">>,
      <<"O", "K">>, <<"O", "R">>, <<"P", "A">>, <<"R", "I">>, <<"S", "C">>,
      <<"S", "D">>, <<"T", "N">>, <<"T", "X">>, <<"U", "T">>, <<"V", "T">>,
      <<"V", "A">>, <<"W", "A">>, <<"W", "V">>, <<"W", "I">>, <<"W", "Y">>>>

\* state_names, in the order the dict is written: <<name, code>>
StateNames ==
    <<<<<<"a", "l", "a", "b", "a", "m", "a">>, <<"A", "L">>>>,
      <<<<"a", "l", "a", "s", "k", "a">>, <<"A", "K">>>>,
      <<<<"a", "r", "i", "z", "o", "n", "a">>, <<"A", "Z">>>>,
      <<<<"a", "r", "k", "a", "n", "s", "a", "s">>, <<"A", "R">>>>,
      <<<<"c", "a", "l", "i", "f", "o", "r", "n", "i", "a">>, <<"C", "A">>>>,
      <<<<"c", "o", "l", "o", "r", "a", "d", "o">>, <<"C", "O">>>>,
      <<<<"c", "o", "n", "n", "e", "c", "t", "i", "c", "u", "t">>, <<"C", "T">>>>,
      <<<<"d", "e", "l", "a", "w", "a", "r", "e">>, <<"D", "E">>>>,
      <<<<"f", "l", "o", "r", "i", "d", "a">>, <<"F", "L">>>>,
      <<<<"g", "e", "o", "r", "g", "i", "a">>, <<"G", "A">>>>,
      <<<<"h", "a", "w", "a", "i", "i">>, <<"H", "I">>>>,
      <<<<"i", "d", "a", "h", "o">>, <<"I", "D">>>>,
      <<<<"i", "l", "l", "i", "n", "o", "i", "s">>, <<"I", "L">>>>,
      <<<<"i", "n", "d", "i", "a", "n", "a">>, <<"I", "N">>>>,
      <<<<"i", "o", "w", "a">>, <<"I", "A">>>>,
      <<<<"k", "a", "n", "s", "a", "s">>, <<"K", "S">>>>,
      <<<<"k", "e", "n", "t", "u", "c", "k", "y">>, <<"K", "Y">>>>,
      <<<<"l", "o", "u", "i", "s", "i", "a", "n", "a">>, <<"L", "A">>>>,
      <<<<"m", "a", "i", "n", "e">>, <<"M", "E">>>>,
      <<<<"m", "a", "r", "y", "l", "a", "n", "d">>, <<"M", "D">>>>,
      <<<<"m", "a", "s", "s", "a", "c", "h", "u", "s", "e", "t", "t", "s">>, <<"M", "A">>>>,
      <<<<"m", "i", "c", "h", "i", "g", "a", "n">>, <<"M", "I">>>>,
      <<<<"m", "i", "n", "n", "e", "s", "o", "t", "a">>, <<"M", "N">>>>,
      <<<<"m", "i", "s", "s", "i", "s", "s", "i", "p", "p", "i">>, <<"M", "S">>>>,
      <<<<"m", "i", "s", "s", "o", "u", "r", "i">>, <<"M", "O">>>>,
      <<<<"m", "o", "n", "t", "a", "n", "a">>, <<"M", "T">>>>,
      <<<<"n", "e", "b", "r", "a", "s", "k", "a">>, <<"N", "E">>>>,
      <<<<"n", "e", "v", "a", "d", "a">>, <<"N", "V">>>>,
      <<<<"n", "e", "w", " ", "h", "a", "m", "p", "s", "h", "i", "r", "e">>, <<"N", "H">>>>,
      <<<<"n", "e", "w", " ", "j", "e", "r", "s", "e", "y">>, <<"N", "J">>>>,
      <<<<"n", "e", "w", " ", "m", "e", "x", "i", "c", "o">>, <<"N", "M">>>>,
      <<<<"n", "e", "w", " ", "y", "o", "r", "k">>, <<"N", "Y">>>>,
      <<<<"n", "o", "r", "t", "h", " ", "c", "a", "r", "o", "l", "i", "n", "a">>, <<"N", "C">>>>,
      <<<<"n", "o", "r", "t", "h", " ", "d", "a", "k", "o", "t", "a">>, <<"N", "D">>>>,
      <<<<"o", "h", "i", "o">>, <<"O", "H">>>>,
      <<<<"o", "k", "l", "a", "h", "o", "m", "a">>, <<"O", "K">>>>,
      <<<<"o", "r", "e", "g", "o", "n">>, <<"O", "R">>>>,
      <<<<"p", "e", "n", "n", "s", "y", "l", "v", "a", "n", "i", "a">>, <<"P", "A">>>>,
      <<<<"r", "h", "o", "d", "e", " ", "i", "s", "l", "a", "n", "d">>, <<"R", "I">>>>,
      <<<<"s", "o", "u", "t", "h", " ", "c", "a", "r", "o", "l", "i", "n", "a">>, <<"S", "C">>>>,
      <<<<"s", "o", "u", "t", "h", " ", "d", "a", "k", "o", "t", "a">>, <<"S", "D">>>>,
      <<<<"t", "e", "n", "n", "e", "s", "s", "e", "e">>, <<"T", "N">>>>,
      <<<<"t", "e", "x", "a", "s">>, <<"T", "X">>>>,
      <<<<"u", "t", "a", "h">>, <<"U", "T">>>>,
      <<<<"v", "e", "r", "m", "o", "n", "t">>, <<"V", "T">>>>,
      <<<<"v", "i", "r", "g", "i", "n", "i", "a">>, <<"V", "A">>>>,
      <<<<"w", "a", "s", "h", "i", "n", "g", "t", "o", "n">>, <<"W", "A">>>>,
      <<<<"w", "e", "s", "t", " ", "v", "i", "r", "g", "i", "n", "i", "a">>, <<"W", "V">>>>,
      <<<<"w", "i", "s", "c", "o", "n", "s", "i", "n">>, <<"W", "I">>>>,
      <<<<"w", "y", "o", "m", "i", "n", "g">>, <<"W", "Y">>>>>>

\* re.search(rf'\b{st}\b|_{st}_|_{st}\.|-{st}-|-{st}\.', s) finds a match
StateCodeFound(s, st) ==
    \E i \in 1..(Len(s) - 1) :
        /\ SubSeq(s, i, i + 1) = st
        /\ \/ /\ (i = 1 \/ s[i - 1] \notin WordChars)
              /\ (i + 1 = Len(s) \/ s[i + 2] \notin WordChars)
           \/ /\ i > 1
              /\ i + 2 <= Len(s)
              /\ \/ (s[i - 1] = "_" /\ s[i + 2] \in {"_", "."})
                 \/ (s[i - 1] = "-" /\ s[i + 2] \in {"-", "."})

\* The two searches of extract_state_from_filename: the first code of the
\* list that the upper-cased name holds as a word of its own, else the code of
\* the first state name that the lower-cased name holds.
StateMatch(filename) ==
    LET filename_upper == ToUpper(filename)
        filename_lower == ToLower(filename)
        byCode == {k \in 1..Len(StateCodes) : StateCodeFound(filename_upper, StateCodes[k])}
        byName == {k \in 1..Len(StateNames) : Contains(filename_lower, StateNames[k][1])}
    IN IF byCode # {}
       THEN [found |-> TRUE,
             state |-> StateCodes[CHOOSE k \in byCode : \A j \in byCode : k <= j]]
       ELSE IF byName # {}
       THEN [found |-> TRUE,
             state |-> StateNames[CHOOSE k \in byName : \A j \in byName : k <= j][2]]
       ELSE [found |-> FALSE]

\* extract_state_from_filename(filename): the code, or None
extract_state_from_filename(filename) ==
    LET m == StateMatch(filename)
    IN IF m.found THEN m.state ELSE None

\* The keyword lists of extract_doc_type_from_filename, in the order tested:
\* <<keywords, type>>
DocTypeKeywords ==
    <<<<{<<"f", "o", "r", "m", "u", "l", "a", "r", "y">>, <<"d", "r", "u", "g">>, <<"m", "e", "d", "i", "c", "a", "t", "i", "o", "n">>, <<"t", "i", "e", "r">>}, <<"f", "o", "r", "m", "u", "l", "a", "r", "y">>>>,
      <<{<<"f", "a", "q">>, <<"q", "u", "e", "s", "t", "i", "o", "n">>, <<"a", "n", "s", "w", "e", "r">>}, <<"f", "a", "q">>>>,
      <<{<<"n", "e", "t", "w", "o", "r", "k">>, <<"p", "r", "o", "v", "i", "d", "e", "r">>, <<"d", "o", "c", "t", "o", "r">>, <<"p", "h", "y", "s", "i", "c", "i", "a", "n">>}, <<"n", "e", "t", "w", "o", "r", "k">>>>,
      <<{<<"s", "u", "m", "m", "a", "r", "y">>, <<"b", "e", "n", "e", "f", "i", "t">>, <<"c", "o", "v", "e", "r", "a", "g", "e">>}, <<"s", "u", "m", "m", "a", "r", "y">>>>>>

extract_doc_type_from_filename(filename) ==
    LET filename_lower == ToLower(filename)
        hits == {k \in 1..Len(DocTypeKeywords) :
                    \E w \in DocTypeKeywords[k][1] : Contains(filename_lower, w)}
    IN IF hits # {}
       THEN DocTypeKeywords[CHOOSE k \in hits : \A j \in hits : k <= j][2]
       ELSE Unknown

\* add_metadata_to_chunk(chunk) with neither tag given: both are inferred
\* from chunk['source']; a state of None is stored as 'unknown'.
add_metadata_to_chunk_inferred(chunk) ==
    LET m == StateMatch(chunk.source)
        doc_type == extract_doc_type_from_filename(chunk.source)
    IN add_metadata_to_chunk(chunk, IF m.found THEN m.state ELSE <<>>, doc_type)

MaxPages == 2

Sources ==
    {<<"f", "o", "r", "m", "u", "l", "a", "r", "y", "-", "2",
       "0", "2", "6", "-", "n", "o", "r", "t", "h", "-", "c",
       "a", "r", "o", "l", "i", "n", "a", ".", "p", "d", "f">>,
     <<"f", "o", "r", "m", "u", "l", "a", "r", "y", "-", "2",
       "0", "2", "6", "-", "n", "o", "r", "t", "h", "-", "d",
       "a", "k", "o", "t", "a", ".", "p", "d", "f">>,
     <<"N", "C", " ", "F", "A", "Q", ".", "p", "d", "f">>,
     <<"N", "C", "-", "F", "A", "Q", ".", "p", "d", "f">>}
PageNums == {1, 2}
PageTexts == {<<" ">>, <<"a", ".", " ", "a">>}
PageRecords ==
    {[source |-> s, page_num |-> n, text |-> t] :
        s \in Sources, n \in PageNums, t \in PageTexts}
PageLists == UNION {[1..n -> PageRecords] : n \in 0..MaxPages}

\* The documents a pipeline run may find. A document is its file name, whether
\* a parser can read it, and for each of its pages the text that extraction
\* and clean_text leave of it (<<>> when nothing is left).
MaxDocs == 2
CleanedText == <<"a", ".", " ", "a">>
DocumentNames ==
    {<<"N", "C", "-", "F", "A", "Q", ".", "p", "d", "f">>,
     <<"t", "e", "x", "a", "s", "-", "d", "r", "u", "g", ".", "p", "d", "f">>}
Documents ==
    {[source |-> s, readable |-> FALSE, cleaned |-> <<>>] : s \in DocumentNames}
    \cup
    {[source |-> s, readable |-> TRUE, cleaned |-> c] :
        s \in DocumentNames,
        c \in {<<<<>>>>, <<CleanedText>>, <<<<>>, CleanedText>>}}
Batches == UNION {[1..n -> Documents] : n \in 0..MaxDocs}

\* clean_pages(parse_pdf(path)) for a readable document: one record per page
\* that has text, numbered from 1 by its place in the document.
CleanedPagesOf(doc) ==
    SelectSeq([i \in 1..Len(doc.cleaned) |->
                  [page_num |-> i, text |-> doc.cleaned[i], source |-> doc.source]],
              LAMBDA page : page.text # <<>>)

\* all_pages.extend(pages) over the documents, in the order they were found.
RECURSIVE AllCleanedPages(_)
AllCleanedPages(docs) ==
    IF docs = <<>> THEN <<>>
    ELSE CleanedPagesOf(Head(docs)) \o AllCleanedPages(Tail(docs))

\* Embedder.embed_text: the vector the model computes for a text; it is a
\* function of the text alone and has the model's width.
EmbedWidth == 1
Embed(t) == [d \in 1..EmbedWidth |-> 2 * (Len(t) % 2)]

\* Embedder.embed_chunks(chunks): a copy of each chunk with its vector.
embed_chunks(cs) == [i \in DOMAIN cs |-> SetItem(cs[i], "embedding", Embed(cs[i].text))]

ChunkPagesSizes == {2, 4}
ChunkPagesOverlaps == {1}
StateTags == {<<>>, <<"N", "C">>}
DocTypeTags == {<<"f", "a", "q">>}

(***************************************************************************)
(* Initial state and the operations.                                       *)
(***************************************************************************)
InitPages ==
    /\ pages = <<>>
    /\ all_chunks = None
    /\ pdf_files = <<>>

\* The threads that search the loaded pair; none has called yet.
Threads == {1, 2}
Idle == [pc |-> "idle"]

InitSearches == searches = [t \in Threads |-> Idle]

InitChunker ==
    /\ text = <<>>
    /\ chunk_size = 1
    /\ overlap = 0
    /\ chunks = None

Init ==
    /\ corpus \in EmbeddedCorpora
    /\ index = None
    /\ metadata = None
    /\ disk = [index |-> [p \in IndexPaths |-> Absent],
               meta |-> [p \in MetadataPaths |-> Absent]]
    /\ loaded_index = None
    /\ loaded_metadata = None
    /\ out = [op |-> "init"]
    /\ InitPages
    /\ InitSearches
    /\ InitChunker

\* index, metadata = build_index_from_chunks(chunks[:n], dimension, index_type)
Build(n, dimension, index_type) ==
    LET input == SubSeq(corpus, 1, n)
        r == build_index_from_chunks(input, dimension, index_type)
    IN /\ out' = [op |-> "build", status |-> r.status,
                  input |-> input, dimension |-> dimension, index_type |-> index_type]
       /\ IF r.status # "ok"
          THEN UNCHANGED <<index, metadata>>
          ELSE index' = r.index /\ metadata' = r.metadata
       /\ UNCHANGED <<corpus, disk, loaded_index, loaded_metadata>>
       /\ UNCHANGED <<cvars, pvars, svars>>

\* save_index(index, metadata, output_dir, index_name, metadata_name).
\* A call may be cut short between its two writes (open() raising OSError on
\* the metadata path, or the process dying there): the index file is written,
\* the metadata file is left as it was.
SaveFaults == {"none", "interrupted"}

save_index(ip, mp, fault) ==
    /\ index # None
    /\ LET d1 == [disk EXCEPT !.index[ip] = write_index(index)]
           d2 == IF fault = "interrupted" THEN d1
                 ELSE [d1 EXCEPT !.meta[mp] = [json |-> JsonDump(metadata)]]
       IN /\ disk' = d2
          /\ out' = [op |-> "save", status |-> IF fault = "none" THEN "ok" ELSE "OSError",
                     index_path |-> ip, metadata_path |-> mp]
    /\ UNCHANGED <<corpus, index, metadata, loaded_index, loaded_metadata>>
    /\ UNCHANGED <<cvars, pvars, svars>>

\* Mutant: a missing metadata file is read as an empty list.
load_index_result_lenient(ip, mp) ==
    IF disk.index[ip] = Absent THEN Raise("FileNotFoundError")
    ELSE LET ix == read_index(disk.index[ip])
             md == IF disk.meta[mp] = Absent THEN <<>>
                   ELSE JsonLoad(disk.meta[mp].json)
         IN [status |-> "ok", index |-> ix, metadata |-> md,
             warning |-> ntotal(ix) # Len(md)]

\* load_index(index_path, metadata_path): the exception raised, or the pair
\* with whether the WARNING line was printed.
load_index_result(ip, mp) ==
    IF disk.index[ip] = Absent THEN Raise("FileNotFoundError")
    ELSE IF disk.meta[mp] = Absent THEN Raise("FileNotFoundError")
    ELSE LET ix == read_index(disk.index[ip])
             md == JsonLoad(disk.meta[mp].json)
         IN [status |-> "ok", index |-> ix, metadata |-> md,
             warning |-> ntotal(ix) # Len(md)]

load_index(ip, mp) ==
    LET r == load_index_result(ip, mp)
    IN /\ out' = [op |-> "load", status |-> r.status, index_path |-> ip,
                  metadata_path |-> mp,
                  warning |-> IF r.status = "ok" THEN r.warning ELSE FALSE]
       /\ IF r.status = "ok"
          THEN loaded_index' = r.index /\ loaded_metadata' = r.metadata
          ELSE UNCHANGED <<loaded_index, loaded_metadata>>
       /\ UNCHANGED <<corpus, index, metadata, disk>>
       /\ UNCHANGED <<cvars, pvars, svars>>

\* results = search_index(loaded_index, loaded_metadata, q, k)
search_index(q, k) ==
    /\ loaded_index # None
    /\ LET r == search_index_result(loaded_index, loaded_metadata, q, k)
       IN /\ out' = [op |-> "search", status |-> r.status, query |-> q,
                     top_k |-> k, results |-> r.results]
          /\ loaded_metadata' = r.metadata
    /\ UNCHANGED <<corpus, index, metadata, disk, loaded_index>>
    /\ UNCHANGED <<cvars, pvars, svars>>

\* chunks = chunk_text(text, chunk_size, overlap); no path of the function
\* raises, so the call returns normally.
ChunkSimple ==
    /\ chunks' = [mode |-> "simple", status |-> "ok",
                  chunks |-> chunk_text(text, chunk_size, overlap)]
    /\ UNCHANGED <<text, chunk_size, overlap>>
    /\ UNCHANGED <<ivars, pvars, svars>>

\* chunks = chunk_text_smart(text, chunk_size, overlap)
ChunkSmart ==
    /\ chunks' = [mode |-> "smart", status |-> "ok",
                  chunks |-> chunk_text_smart(text, chunk_size, overlap)]
    /\ UNCHANGED <<text, chunk_size, overlap>>
    /\ UNCHANGED <<ivars, pvars, svars>>

\* Mutant: with overlap >= chunk_size the window is left where it is.
NextStartStuck(start, size, ov) ==
    IF ov >= size THEN start ELSE start + size - ov

\* The start of the next window of chunk_text: end - overlap, or end when
\* overlap >= chunk_size.
NextStart(start, size, ov) ==
    LET end == start + size
    IN IF ov >= size THEN end ELSE end - ov

\* chunk_text(text, chunk_size, overlap) is called: it returns at once for an
\* empty or a short text, and enters its while loop otherwise.
ChunkTextCall ==
    /\ chunks = None
    /\ chunks' = IF text = <<>>
                 THEN [mode |-> "simple", status |-> "ok", chunks |-> <<>>]
                 ELSE IF Len(text) <= chunk_size
                 THEN [mode |-> "simple", status |-> "ok", chunks |-> <<text>>]
                 ELSE [mode |-> "simple", status |-> "running", start |-> 0,
                       chunks |-> <<>>]
    /\ UNCHANGED <<text, chunk_size, overlap>>
    /\ UNCHANGED <<ivars, pvars, svars>>

\* One evaluation of the while condition of chunk_text: the loop body when it
\* holds, the return when it does not.
ChunkTextStep ==
    /\ chunks # None
    /\ chunks.status = "running"
    /\ chunks' =
          IF ~(chunks.start < Len(text))
          THEN [mode |-> "simple", status |-> "ok", chunks |-> chunks.chunks]
          ELSE LET end == chunks.start + chunk_size
                   chunk == Slice(text, chunks.start, end)
               IN [mode |-> "simple", status |-> "running",
                   start |-> NextStart(chunks.start, chunk_size, overlap),
                   chunks |-> IF StripTruthy(chunk) THEN Append(chunks.chunks, chunk)
                              ELSE chunks.chunks]
    /\ UNCHANGED <<text, chunk_size, overlap>>
    /\ UNCHANGED <<ivars, pvars, svars>>

\* chunk_text_smart(text, chunk_size, overlap) is called once.
ChunkSmartCall ==
    /\ chunks = None
    /\ ChunkSmart

\* all_chunks = chunk_pages(pages, chunk_size=size, overlap=ov, smart=smart)
chunk_pages(size, ov, smart) ==
    /\ all_chunks' = [list |-> chunk_pages_result(pages, size, ov, smart)]
    /\ out' = [op |-> "chunk_pages", status |-> "ok", chunk_size |-> size,
               overlap |-> ov, smart |-> smart]
    /\ UNCHANGED <<pages, pdf_files, corpus, index, metadata, disk, loaded_index,
                   loaded_metadata>>
    /\ UNCHANGED <<cvars, svars>>

\* tag_chunks(all_chunks, state, doc_type): every dict of the list is updated
\* in place, so the list the caller holds is the tagged one.
tag_chunks(state, doc_type) ==
    /\ all_chunks # None
    /\ all_chunks' = [list |-> [i \in 1..Len(all_chunks.list) |->
                         add_metadata_to_chunk(all_chunks.list[i], state, doc_type)]]
    /\ out' = [op |-> "tag_chunks", status |-> "ok", state |-> state,
               doc_type |-> doc_type,
               retagged |-> /\ all_chunks.list # <<>>
                            /\ \A i \in 1..Len(all_chunks.list) :
                                  "chunk_id" \in DOMAIN all_chunks.list[i]]
    /\ UNCHANGED <<pages, pdf_files, corpus, index, metadata, disk, loaded_index,
                   loaded_metadata>>
    /\ UNCHANGED <<cvars, svars>>

\* run_ingestion_pipeline(): one run over the documents found, with the
\* configured chunk size, overlap, vector width and artifact paths. The
\* documents are parsed one after the other with no handler around the loop,
\* so the first one no parser can read ends the run with parse_pdf's Exception
\* before anything is chunked; __main__ reports it and exits with status 1.
run_ingestion_pipeline(size, ov, dimension, ip, mp, fault) ==
    /\ UNCHANGED <<pdf_files, corpus, loaded_index, loaded_metadata>>
    /\ UNCHANGED <<cvars, svars>>
    /\ IF pdf_files = <<>>
       THEN /\ out' = [op |-> "pipeline", status |-> "no_files"]
            /\ UNCHANGED <<pages, all_chunks, index, metadata, disk>>
       ELSE IF \E i \in DOMAIN pdf_files : ~pdf_files[i].readable
       THEN /\ out' = [op |-> "pipeline", status |-> "Exception"]
            /\ pages' = <<>>
            /\ all_chunks' = None
            /\ UNCHANGED <<index, metadata, disk>>
       ELSE LET cleaned_pages == AllCleanedPages(pdf_files)
                cs == chunk_pages_result(cleaned_pages, size, ov, TRUE)
                tagged_chunks == [i \in DOMAIN cs |-> add_metadata_to_chunk_inferred(cs[i])]
                embedded_chunks == embed_chunks(tagged_chunks)
                b == build_index_from_chunks(embedded_chunks, dimension, "flat")
            IN /\ pages' = cleaned_pages
               /\ all_chunks' = [list |-> tagged_chunks]
               /\ IF b.status # "ok"
                  THEN /\ out' = [op |-> "pipeline", status |-> b.status]
                       /\ UNCHANGED <<index, metadata, disk>>
                  ELSE LET d1 == [disk EXCEPT !.index[ip] = write_index(b.index)]
                           d2 == IF fault = "interrupted" THEN d1
                                 ELSE [d1 EXCEPT !.meta[mp] = [json |-> JsonDump(b.metadata)]]
                       IN /\ index' = b.index
                          /\ metadata' = b.metadata
                          /\ disk' = d2
                          /\ out' = [op |-> "pipeline",
                                     status |-> IF fault = "none" THEN "ok" ELSE "OSError",
                                     index_path |-> ip, metadata_path |-> mp]

\* Thread t calls search_index(loaded_index, loaded_metadata, q, k) and gets
\* as far as the return of index.search.
SearchCall(t, q, k) ==
    /\ loaded_index # None
    /\ searches[t].pc \in {"idle", "done"}
    /\ LET s == IndexSearch(loaded_index, q, k)
       IN searches' = [searches EXCEPT ![t] =
              IF s.status # "ok"
              THEN [pc |-> "done", q |-> q, k |-> k, status |-> s.status,
                    results |-> <<>>]
              ELSE [pc |-> "loop", q |-> q, k |-> k, indices |-> s.indices,
                    distances |-> s.distances, pos |-> 1, results |-> <<>>]]
    /\ UNCHANGED <<loaded_metadata, pvars, cvars, ivars>>

\* Thread t runs one pass of the for loop, and returns after the last.
SearchStep(t) ==
    /\ searches[t].pc = "loop"
    /\ LET c == searches[t]
           r == SearchIteration(loaded_metadata, c.results, c.indices[c.pos],
                                c.distances[c.pos], c.pos - 1)
       IN /\ loaded_metadata' = r.metadata
          /\ searches' = [searches EXCEPT ![t] =
                 IF r.status # "ok" \/ c.pos = Len(c.indices)
                 THEN [pc |-> "done", q |-> c.q, k |-> c.k, status |-> r.status,
                       results |-> r.results]
                 ELSE [c EXCEPT !.pos = c.pos + 1, !.results = r.results]]
    /\ UNCHANGED <<corpus, index, metadata, disk, loaded_index, out, pvars, cvars>>

Next ==
    \/ \E n \in {Len(corpus) - 1, Len(corpus)}, d \in Dims, t \in IndexTypes :
          Build(n, d, t)
    \/ \E ip \in IndexPaths, mp \in MetadataPaths, fault \in SaveFaults :
          save_index(ip, mp, fault)
    \/ \E ip \in IndexPaths, mp \in MetadataPaths : load_index(ip, mp)
    \/ \E qk \in SearchInputs : search_index(qk[1], qk[2])

Spec == Init /\ [][Next]_vars

\* The chunker on its own: each behaviour fixes one call's arguments.
InitChunk ==
    /\ text \in Texts
    /\ chunk_size \in 1..MaxChunkSize
    /\ overlap \in 0..MaxOverlap
    /\ chunks = None
    /\ corpus = <<>>
    /\ index = None
    /\ metadata = None
    /\ disk = [index |-> [p \in IndexPaths |-> Absent],
               meta |-> [p \in MetadataPaths |-> Absent]]
    /\ loaded_index = None
    /\ loaded_metadata = None
    /\ out = [op |-> "init"]
    /\ InitPages
    /\ InitSearches

NextChunk == ChunkSimple \/ ChunkSmart

SpecChunk == InitChunk /\ [][NextChunk]_vars

\* The smart mode on its own, over texts made of sentences.
InitSmart ==
    /\ \E inp \in SmartInputs :
          /\ text = inp[1]
          /\ chunk_size = inp[2]
          /\ overlap = inp[3]
    /\ chunks = None
    /\ corpus = <<>>
    /\ index = None
    /\ metadata = None
    /\ disk = [index |-> [p \in IndexPaths |-> Absent],
               meta |-> [p \in MetadataPaths |-> Absent]]
    /\ loaded_index = None
    /\ loaded_metadata = None
    /\ out = [op |-> "init"]
    /\ InitPages
    /\ InitSearches

NextSmart == ChunkSmart

SpecSmart == InitSmart /\ [][NextSmart]_vars

\* build_index_from_chunks on its own, over lists in which any chunk may
\* lack its 'embedding' and the vectors may differ in width.
InitBuild ==
    /\ corpus \in Corpora
    /\ index = None
    /\ metadata = None
    /\ disk = [index |-> [p \in IndexPaths |-> Absent],
               meta |-> [p \in MetadataPaths |-> Absent]]
    /\ loaded_index = None
    /\ loaded_metadata = None
    /\ out = [op |-> "init"]
    /\ InitPages
    /\ InitSearches
    /\ InitChunker

NextBuild ==
    \E n \in 0..Len(corpus), d \in Dims, t \in IndexTypes : Build(n, d, t)

SpecBuild == InitBuild /\ [][NextBuild]_vars

\* Searches from several threads on one loaded pair: the state after a flat
\* build over the corpus, a save and a load of it.
InitSearch ==
    /\ corpus \in {c \in EmbeddedCorpora : c # <<>>}
    /\ LET r == build_index_from_chunks(corpus, 1, "flat")
       IN /\ index = r.index
          /\ metadata = r.metadata
          /\ disk = [index |-> [p \in IndexPaths |->
                                   IF p = "index.faiss" THEN write_index(r.index)
                                   ELSE Absent],
                     meta |-> [p \in MetadataPaths |-> [json |-> JsonDump(r.metadata)]]]
          /\ loaded_index = read_index(write_index(r.index))
          /\ loaded_metadata = JsonLoad(JsonDump(r.metadata))
    /\ out = [op |-> "load", status |-> "ok", index_path |-> "index.faiss",
              metadata_path |-> "metadata.json", warning |-> FALSE]
    /\ InitPages
    /\ InitSearches
    /\ InitChunker

NextSearch ==
    \/ \E t \in Threads, qk \in SearchInputs : SearchCall(t, qk[1], qk[2])
    \/ \E t \in Threads : SearchStep(t)

SpecSearch == InitSearch /\ [][NextSearch]_vars

\* chunk_pages and the tagger on their own, over short lists of pages.
InitTag ==
    /\ pages \in PageLists
    /\ all_chunks = None
    /\ pdf_files = <<>>
    /\ InitSearches
    /\ InitChunker
    /\ corpus = <<>>
    /\ index = None
    /\ metadata = None
    /\ disk = [index |-> [p \in IndexPaths |-> Absent],
               meta |-> [p \in MetadataPaths |-> Absent]]
    /\ loaded_index = None
    /\ loaded_metadata = None
    /\ out = [op |-> "init"]

NextTag ==
    \/ \E size \in ChunkPagesSizes, ov \in ChunkPagesOverlaps, smart \in BOOLEAN :
          chunk_pages(size, ov, smart)
    \/ \E state \in StateTags, doc_type \in DocTypeTags : tag_chunks(state, doc_type)

SpecTag == InitTag /\ [][NextTag]_vars

\* One chunker call followed statement by statement; chunk_size is any value
\* the caller may pass from 0 up, the functions check none of their arguments.
LoopTexts == UNION {[1..n -> {"a", " "}] : n \in 0..MaxTextLen}

InitLoop ==
    /\ text \in LoopTexts
    /\ chunk_size \in 0..MaxChunkSize
    /\ overlap \in 0..MaxOverlap
    /\ chunks = None
    /\ corpus = <<>>
    /\ index = None
    /\ metadata = None
    /\ disk = [index |-> [p \in IndexPaths |-> Absent],
               meta |-> [p \in MetadataPaths |-> Absent]]
    /\ loaded_index = None
    /\ loaded_metadata = None
    /\ out = [op |-> "init"]
    /\ InitPages
    /\ InitSearches

NextLoop == ChunkTextCall \/ ChunkTextStep \/ ChunkSmartCall

\* The interpreter keeps running a loop it has entered.
SpecLoop == InitLoop /\ [][NextLoop]_vars /\ WF_vars(ChunkTextStep)

\* Pipeline runs over a directory of documents, nothing on disk at first.
InitBatch ==
    /\ pdf_files \in Batches
    /\ pages = <<>>
    /\ all_chunks = None
    /\ InitSearches
    /\ InitChunker
    /\ corpus = <<>>
    /\ index = None
    /\ metadata = None
    /\ disk = [index |-> [p \in IndexPaths |-> Absent],
               meta |-> [p \in MetadataPaths |-> Absent]]
    /\ loaded_index = None
    /\ loaded_metadata = None
    /\ out = [op |-> "init"]

NextBatch ==
    \E size \in ChunkPagesSizes, ov \in ChunkPagesOverlaps, d \in Dims,
       fault \in SaveFaults :
        run_ingestion_pipeline(size, ov, d, "index.faiss", "metadata.json", fault)

SpecBatch == InitBatch /\ [][NextBatch]_vars

(***************************************************************************)
(* Claims.                                                                 *)
(***************************************************************************)
\* The loaded pair is the image of a build over a prefix of the corpus, saved
\* and read back: as many records as vectors, record i and vector i both
\* those of chunk i.
LoadedFromBuild ==
    /\ loaded_index # None
    /\ loaded_index.kind = "flat"
    /\ ntotal(loaded_index) = Len(loaded_metadata)
    /\ ntotal(loaded_index) <= Len(corpus)
    /\ \A i \in 1..ntotal(loaded_index) :
          /\ loaded_index.xb[i] = corpus[i].embedding
          /\ loaded_metadata[i].chunk_id = corpus[i].chunk_id

\* C1: after a successful build_index_from_chunks, the index holds as many
\* vectors as the metadata list holds records and as the input holds chunks;
\* record i is chunk i without its 'embedding' key and vector i is chunk i's
\* embedding.
C1_BuildKeepsOrder ==
    (out.op = "build" /\ out.status = "ok") =>
        /\ out.input # <<>>
        /\ ntotal(index) = Len(out.input)
        /\ Len(metadata) = Len(out.input)
        /\ \A i \in 1..Len(out.input) :
              /\ DOMAIN metadata[i] = (DOMAIN out.input[i]) \ {"embedding"}
              /\ \A k \in DOMAIN metadata[i] : metadata[i][k] = out.input[i][k]
              /\ index.xb[i] = out.input[i].embedding

C1_Witness ==
    /\ out.op = "build"
    /\ out.status = "ok"
    /\ Len(out.input) >= 2
    /\ out.input[1].embedding # out.input[2].embedding
    /\ index.xb[2] = out.input[2].embedding

\* C2: load_index never returns a pair whose vector count differs from the
\* number of metadata records.
C2_LoadNeverReturnsMismatch ==
    (out.op = "load" /\ out.status = "ok") =>
        ntotal(loaded_index) = Len(loaded_metadata)

\* C3: a load_index of the two files a complete save_index has just written
\* succeeds and returns an index equal to the saved one (same count, same
\* vectors in the same positions) and a metadata list equal to the saved one,
\* record for record and field for field.
C3_SaveLoadRoundTrip ==
    [][(/\ out.op = "save"
        /\ out.status = "ok"
        /\ out'.op = "load"
        /\ out'.index_path = out.index_path
        /\ out'.metadata_path = out.metadata_path)
       => (/\ out'.status = "ok"
           /\ loaded_index' = index
           /\ loaded_metadata' = metadata)]_vars

C3_Witness ==
    /\ out.op = "load"
    /\ out.status = "ok"
    /\ ~out.warning
    /\ loaded_index = index
    /\ loaded_metadata = metadata
    /\ Len(loaded_metadata) >= 2
    /\ loaded_index.xb[1] # loaded_index.xb[2]

\* C4: load_index raises FileNotFoundError whenever the index file or the
\* metadata file is missing, and then returns nothing: the pair held from an
\* earlier load is left as it was.
C4_LoadMissingArtifact ==
    [][(/\ out'.op = "load"
        /\ \/ disk.index[out'.index_path] = Absent
           \/ disk.meta[out'.metadata_path] = Absent)
       => (/\ out'.status = "FileNotFoundError"
           /\ loaded_index' = loaded_index
           /\ loaded_metadata' = loaded_metadata)]_vars

\* Only the metadata file is present at the paths given.
C4_Witness ==
    /\ out.op = "load"
    /\ out.status = "FileNotFoundError"
    /\ disk.index[out.index_path] = Absent
    /\ disk.meta[out.metadata_path] # Absent

\* C5: a search with top_k = k >= 1 over a flat index of n vectors with a
\* metadata list of n records returns exactly min(k, n) results.
C5_SearchReturnsMinKN ==
    (/\ out.op = "search"
     /\ out.top_k >= 1
     /\ Len(out.query) = loaded_index.d
     /\ ntotal(loaded_index) = Len(loaded_metadata))
    => (/\ out.status = "ok"
        /\ Len(out.results) = Min(out.top_k, ntotal(loaded_index)))

\* Fewer vectors than asked for: the empty slots are left out.
C5_Witness ==
    /\ out.op = "search"
    /\ out.status = "ok"
    /\ ntotal(loaded_index) = Len(loaded_metadata)
    /\ ntotal(loaded_index) >= 2
    /\ out.top_k > ntotal(loaded_index)
    /\ Len(out.results) = ntotal(loaded_index)

FirstWithVector(ix, i) ==
    CHOOSE j \in 1..i :
        /\ ix.xb[j] = ix.xb[i]
        /\ \A h \in 1..(j - 1) : ix.xb[h] # ix.xb[i]

C8_SearchRejectsTopK ==
    (out.op = "search" /\ out.top_k <= 0) =>
        (out.status = "ValueError" /\ out.results = <<>>)

\* The text is empty or holds nothing but whitespace.
Blank(t) == ~StripTruthy(t)

\* C9: for an empty or whitespace-only text both modes return no chunk.
C9_BlankTextGivesNoChunks ==
    (chunks # None /\ Blank(text)) => chunks.chunks = <<>>

\* C10: for a text that is not blank and no longer than chunk_size, both
\* modes return the text itself as the only chunk, whatever the overlap.
C10_ShortTextIsOneChunk ==
    (chunks # None /\ ~Blank(text) /\ Len(text) <= chunk_size) =>
        chunks.chunks = <<text>>

\* Smart mode on a short text with whitespace at both ends and a sentence
\* delimiter inside, with an overlap in play.
C10_Witness ==
    /\ chunks # None
    /\ chunks.mode = "smart"
    /\ Len(text) = 3
    /\ Len(text) <= chunk_size
    /\ text[1] = " "
    /\ text[2] = "."
    /\ text[3] = " "
    /\ overlap > 0
    /\ chunks.chunks = <<text>>

\* C11: a call with overlap >= chunk_size fails with a parameter error and
\* emits no chunk, in simple mode and in smart mode alike.
C11_OverlapNotBelowSizeRejected ==
    (chunks # None /\ overlap >= chunk_size) =>
        (chunks.status = "ValueError" /\ chunks.chunks = <<>>)

\* C12 (as claimed): in simple mode with 0 <= overlap < chunk_size, any two
\* adjacent chunks of the output that both have the full length chunk_size
\* share the overlap: the last `overlap` characters of the first are the first
\* `overlap` characters of the second.
C12_AdjacentFullChunksShareOverlap ==
    (chunks # None /\ chunks.mode = "simple" /\ overlap < chunk_size) =>
        \A i \in 1..(Len(chunks.chunks) - 1) :
            LET a == chunks.chunks[i]
                b == chunks.chunks[i + 1]
            IN (Len(a) = chunk_size /\ Len(b) = chunk_size) =>
                   LastChars(a, overlap) = SubSeq(b, 1, overlap)

\* The smart-mode call of the state, position by position, and its agreement
\* with the chunks the call returned.
SmartTrace == chunk_text_smart_spans(text, chunk_size, overlap)

SmartTraceAgrees ==
    chunks.chunks = [i \in 1..Len(SmartTrace) |-> TextOf(text, SmartTrace[i].prov)]

\* The first and the last character of a sentence that is not whitespace.
FirstInk(t, sp) ==
    CHOOSE i \in sp[1]..sp[2] :
        /\ t[i] \notin Whitespace
        /\ \A j \in sp[1]..(i - 1) : t[j] \in Whitespace

LastInk(t, sp) ==
    CHOOSE i \in sp[1]..sp[2] :
        /\ t[i] \notin Whitespace
        /\ \A j \in (i + 1)..sp[2] : t[j] \in Whitespace

\* Chunk c holds the characters at positions a..b of the text, in a row.
HoldsRun(c, a, b) ==
    \E k \in 1..Len(c.prov) :
        /\ k + (b - a) <= Len(c.prov)
        /\ \A j \in 0..(b - a) : c.prov[k + j] = a + j

\* C13 (as claimed): in smart mode every sentence unit of the text is found
\* whole, less its trailing whitespace only, inside one emitted chunk.
C13_SentenceWholeButTrailingSpace ==
    (chunks # None /\ chunks.mode = "smart") =>
        /\ SmartTraceAgrees
        /\ \A n \in 1..Len(SentenceSpans(text)) :
              LET sp == SentenceSpans(text)[n]
              IN \E i \in 1..Len(SmartTrace) :
                    HoldsRun(SmartTrace[i], sp[1], LastInk(text, sp))

\* C13 (amended): in smart mode every sentence unit of the text is found
\* whole, less its leading and trailing whitespace, inside one emitted chunk.
C13_SentenceWholeInOneChunk ==
    (chunks # None /\ chunks.mode = "smart") =>
        /\ SmartTraceAgrees
        /\ \A n \in 1..Len(SentenceSpans(text)) :
              LET sp == SentenceSpans(text)[n]
              IN \E i \in 1..Len(SmartTrace) :
                    HoldsRun(SmartTrace[i], FirstInk(text, sp), LastInk(text, sp))

\* A text that opens with whitespace, cut into several chunks, the first
\* sentence shorter than chunk_size and losing its leading whitespace.
C13_Witness ==
    /\ chunks # None
    /\ chunks.mode = "smart"
    /\ Len(chunks.chunks) >= 2
    /\ text[1] \in Whitespace
    /\ LET sp == SentenceSpans(text)[1]
       IN /\ sp[2] - sp[1] + 1 < chunk_size
          /\ chunks.chunks[1] = SubSeq(text, FirstInk(text, sp), LastInk(text, sp))

\* C14: in smart mode, with an overlap in force, a chunk emitted after a
\* chunk that is longer than `overlap` begins with the last `overlap`
\* characters of that chunk.
C14_NextChunkBeginsWithOverlap ==
    (chunks # None /\ chunks.mode = "smart" /\ overlap > 0) =>
        \A i \in 1..(Len(chunks.chunks) - 1) :
            LET a == chunks.chunks[i]
                b == chunks.chunks[i + 1]
            IN Len(a) > overlap =>
                   /\ Len(b) >= overlap
                   /\ SubSeq(b, 1, overlap) = LastChars(a, overlap)

\* The sentence is longer than chunk_size.
Oversized(sp) == sp[2] - sp[1] + 1 > chunk_size

\* Chunk c holds sentence sp whole, less the whitespace at its ends.
HoldsSentence(c, sp) == HoldsRun(c, FirstInk(text, sp), LastInk(text, sp))

\* C15 (as claimed): in smart mode a sentence unit longer than chunk_size is
\* found whole in an emitted chunk, and a chunk holding it holds no other
\* sentence unit of the text.
C15_OversizedSentenceAlone ==
    (chunks # None /\ chunks.mode = "smart" /\ Len(text) > chunk_size) =>
        /\ SmartTraceAgrees
        /\ \A n \in 1..Len(SentenceSpans(text)) :
              LET sp == SentenceSpans(text)[n]
              IN Oversized(sp) =>
                    /\ \E i \in 1..Len(SmartTrace) : HoldsSentence(SmartTrace[i], sp)
                    /\ \A i \in 1..Len(SmartTrace) :
                          HoldsSentence(SmartTrace[i], sp) =>
                              \A m \in 1..Len(SentenceSpans(text)) :
                                  m # n => ~HoldsSentence(SmartTrace[i],
                                                          SentenceSpans(text)[m])

\* C15 (amended): in smart mode a sentence unit longer than chunk_size is the
\* only sentence packed into its chunk, and that chunk is the sentence, less
\* the whitespace at its ends, after at most `overlap` characters carried over
\* from the buffer before.
C15_OversizedSentenceOwnChunk ==
    (chunks # None /\ chunks.mode = "smart" /\ Len(text) > chunk_size) =>
        /\ SmartTraceAgrees
        /\ \A n \in 1..Len(SentenceSpans(text)) :
              LET sp == SentenceSpans(text)[n]
                  ink == LastInk(text, sp) - FirstInk(text, sp) + 1
              IN Oversized(sp) =>
                    \E i \in 1..Len(SmartTrace) :
                        LET c == SmartTrace[i]
                        IN /\ c.units = <<sp>>
                           /\ c.seed <= overlap
                           /\ Len(c.prov) - ink <= c.seed
                           /\ SubSeq(c.prov, Len(c.prov) - ink + 1, Len(c.prov))
                                 = Positions(<<FirstInk(text, sp), LastInk(text, sp)>>)
                           /\ \A j \in 1..Len(SmartTrace) :
                                 j # i => \A u \in 1..Len(SmartTrace[j].units) :
                                              SmartTrace[j].units[u] # sp

\* An oversized sentence as the third of the text, with overlap < chunk_size:
\* its chunk opens with a seed that spans the whole sentence before it.
C15_Witness ==
    /\ chunks # None
    /\ chunks.mode = "smart"
    /\ overlap < chunk_size
    /\ Len(SmartTrace) >= 2
    /\ Len(SentenceSpans(text)) >= 3
    /\ LET c == SmartTrace[2]
       IN /\ c.seed > 0
          /\ Len(c.units) = 1
          /\ Oversized(c.units[1])
          /\ HoldsSentence(c, SentenceSpans(text)[2])
          /\ c.units[1] = SentenceSpans(text)[3]

\* C16: every chunk emitted by smart mode ends, once trimmed, on the last
\* character of a sentence unit of the text that is not whitespace, so never
\* inside a word (the text ends there or whitespace follows); the call of the
\* docstring, "First sentence. Second sentence. Third sentence." with
\* chunk_size 30 and overlap 5, gives at least 2 chunks.
C16_ChunksEndAtSentenceEnd ==
    (chunks # None /\ chunks.mode = "smart") =>
        /\ SmartTraceAgrees
        /\ \A i \in 1..Len(SmartTrace) :
              LET trimmed == StripPositions(text, SmartTrace[i].prov)
                  end == trimmed[Len(trimmed)]
              IN trimmed # <<>> =>
                    /\ \E n \in 1..Len(SentenceSpans(text)) :
                          end = LastInk(text, SentenceSpans(text)[n])
                    /\ end = Len(text) \/ text[end + 1] \in Whitespace
        /\ (text = DocText /\ chunk_size = DocChunkSize /\ overlap = DocOverlap) =>
              Len(chunks.chunks) >= 2

\* The call of the docstring has been made; the second of its three chunks
\* ends where the second sentence ends.
C16_Witness ==
    /\ chunks # None
    /\ chunks.mode = "smart"
    /\ text = DocText
    /\ chunk_size = DocChunkSize
    /\ overlap = DocOverlap
    /\ Len(chunks.chunks) = 3
    /\ LET c == chunks.chunks[2]
       IN SubSeq(c, Len(c) - 8, Len(c)) = SubSeq(DocText, 24, 32)

\* The chunk_index values, in list order, of the chunks of one page key.
IndicesOfKey(source, page_num) ==
    LET sel == SelectSeq(all_chunks.list,
                         LAMBDA c : c.source = source /\ c.page_num = page_num)
    IN [j \in 1..Len(sel) |-> sel[j].chunk_index]

\* C17: in the list chunk_pages returns, the chunk_index values of the chunks
\* of each (source, page_num), in reading order, are 0, 1, ..., n-1.
C17_ChunkIndexDensePerPage ==
    all_chunks # None =>
        \A i \in 1..Len(all_chunks.list) :
            LET idx == IndicesOfKey(all_chunks.list[i].source,
                                    all_chunks.list[i].page_num)
            IN idx = [j \in 1..Len(idx) |-> j - 1]

Tagged(c) == "chunk_id" \in DOMAIN c

TripleOf(c) == <<c.source, c.page_num, c.chunk_index>>

\* C18: any two tagged chunks whose (source, page_num, chunk_index) differ
\* carry different chunk_ids.
C18_ChunkIdsUnique ==
    all_chunks # None =>
        \A i, j \in 1..Len(all_chunks.list) :
            LET a == all_chunks.list[i]
                b == all_chunks.list[j]
            IN (Tagged(a) /\ Tagged(b) /\ TripleOf(a) # TripleOf(b)) =>
                   a.chunk_id # b.chunk_id

\* C19: after every step, tagged chunks with the same (source, page_num,
\* chunk_index) carry the same chunk_id, and a tag_chunks step over chunks
\* that are tagged already leaves the chunk_id of each as it was.
C19_ChunkIdPure ==
    [][all_chunks' # None =>
          /\ \A i, j \in 1..Len(all_chunks'.list) :
                LET a == all_chunks'.list[i]
                    b == all_chunks'.list[j]
                IN (Tagged(a) /\ Tagged(b) /\ TripleOf(a) = TripleOf(b)) =>
                       a.chunk_id = b.chunk_id
          /\ (out'.op = "tag_chunks" /\ out'.retagged) =>
                \A i \in 1..Len(all_chunks.list) :
                    /\ TripleOf(all_chunks'.list[i]) = TripleOf(all_chunks.list[i])
                    /\ all_chunks'.list[i].chunk_id = all_chunks.list[i].chunk_id]_vars

\* The list has been tagged a second time, and it holds two chunks with the
\* same triple (from two pages with the same key).
C19_Witness ==
    /\ all_chunks # None
    /\ out.op = "tag_chunks"
    /\ out.retagged
    /\ \E i, j \in 1..Len(all_chunks.list) :
          /\ i # j
          /\ TripleOf(all_chunks.list[i]) = TripleOf(all_chunks.list[j])
          /\ all_chunks.list[i].chunk_id = all_chunks.list[j].chunk_id

\* C20: a build over a list in which some chunk, at whatever position, lacks
\* its vector fails with the one error kind the code raises for a chunk
\* without vector (ValueError), and leaves no new index or metadata list.
C20_MissingVectorSameError ==
    [][(out'.op = "build" /\ \E i \in 1..Len(out'.input) :
                                 "embedding" \notin DOMAIN out'.input[i]) =>
          /\ out'.status = "ValueError"
          /\ UNCHANGED <<index, metadata>>]_vars

\* C21: a build over an empty list fails with ValueError (the code's
\* EmptyInputError) whatever the index type asked for, unknown ones included,
\* and leaves the index and metadata held as they were; the index a build
\* returns is never empty.
C21_EmptyInputRejected ==
    [][/\ (out'.op = "build" /\ out'.input = <<>>) =>
              /\ out'.status = "ValueError"
              /\ UNCHANGED <<index, metadata>>
       /\ index' # None => ntotal(index') >= 1]_vars

\* A build has succeeded, and the build of the empty list after it has
\* failed and left the index with its vectors.
C21_Witness ==
    /\ out.op = "build"
    /\ out.input = <<>>
    /\ out.status = "ValueError"
    /\ out.index_type = "flat"
    /\ index # None
    /\ ntotal(index) = Len(corpus)
    /\ Len(corpus) >= 1

\* The list is one a flat build of that dimension accepts.
WellFormedInput(input, dimension) ==
    /\ input # <<>>
    /\ \A i \in 1..Len(input) :
          /\ "embedding" \in DOMAIN input[i]
          /\ Len(input[i].embedding) = dimension

\* C22: adding to a newly created ivf index, which nothing has trained, fails
\* and leaves it empty, so a build with index_type 'ivf' never succeeds and
\* the index a build returns is never an ivf one.
C22_UntrainedIvfRejectsAdd ==
    /\ (out.op = "build" /\ out.index_type = "ivf") =>
          /\ out.status # "ok"
          /\ WellFormedInput(out.input, out.dimension) =>
                LET c == create_faiss_index(out.dimension, "ivf")
                    a == add_embeddings_to_index(
                             c.index, [i \in 1..Len(out.input) |-> out.input[i].embedding])
                IN /\ c.status = "ok"
                   /\ ntotal(c.index) = 0
                   /\ a.status = "RuntimeError"
    /\ index # None => (index.kind = "flat" /\ index.is_trained)

\* An ivf build over a list that a flat build accepts has failed on the add.
C22_Witness ==
    /\ out.op = "build"
    /\ out.index_type = "ivf"
    /\ WellFormedInput(out.input, out.dimension)
    /\ Len(out.input) >= 2
    /\ out.status = "RuntimeError"
    /\ index = None

\* C23: no step of a search changes the loaded index or any record of the
\* loaded metadata list, and whatever the interleaving with the searches of
\* other threads, a search returns what the same call returns when it runs
\* alone on the pair.
C23_SearchReadOnly ==
    [][/\ loaded_index' = loaded_index
       /\ loaded_metadata' = loaded_metadata
       /\ \A t \in Threads :
             searches'[t].pc = "done" =>
                 LET alone == search_index_result(loaded_index, loaded_metadata,
                                                  searches'[t].q, searches'[t].k)
                 IN /\ searches'[t].status = alone.status
                    /\ searches'[t].results = alone.results]_vars

\* Two searches with different queries are both inside their loops, each
\* with a result already taken from the list.
C23_Witness ==
    /\ searches[1].pc = "loop"
    /\ searches[2].pc = "loop"
    /\ searches[1].q # searches[2].q
    /\ searches[1].pos = 2
    /\ searches[2].pos = 2
    /\ Len(searches[1].results) = 1
    /\ Len(searches[2].results) = 1

\* C24: in a pipeline run over several documents, a document that fails to
\* parse does not stop the others: every readable document of the batch that
\* has text on some page has its chunks in the run's chunk list. (Refuted:
\* the parse loop has no handler, so the run ends at the failing document.)
C24_FailureDoesNotAbortOthers ==
    out.op = "pipeline" =>
        \A i \in DOMAIN pdf_files :
            (pdf_files[i].readable /\ CleanedPagesOf(pdf_files[i]) # <<>>) =>
                /\ all_chunks # None
                /\ \E j \in DOMAIN all_chunks.list :
                       all_chunks.list[j].source = pdf_files[i].source

\* C25: a chunk call with chunk_size <= 0 on a non-empty text fails with a
\* configuration error and returns no chunks, in both modes. (Refuted: neither
\* function checks chunk_size; the smart mode returns chunks and the simple
\* mode never leaves its loop.)
C25_NonPositiveSizeRejected ==
    (chunk_size <= 0 /\ text # <<>> /\ chunks # None) =>
        chunks.status = "ConfigError"

\* C26: for chunk_size > 0 and overlap >= 0, overlap >= chunk_size included,
\* every pass of the simple mode's loop moves the window start forward, and a
\* call that entered the loop returns.
C26_SimpleModeTerminates ==
    /\ [][(/\ chunk_size > 0
           /\ chunks # None
           /\ chunks.status = "running"
           /\ chunks'.status = "running")
          => chunks'.start > chunks.start]_vars
    /\ (chunks # None /\ chunks.status = "running" /\ chunk_size > 0)
          ~> (chunks # None /\ chunks.status = "ok")

\* A call with overlap >= chunk_size went through its loop and returned
\* two chunks.
C26_Witness ==
    /\ chunks # None
    /\ chunks.mode = "simple"
    /\ chunks.status = "ok"
    /\ overlap >= chunk_size
    /\ Len(text) > chunk_size
    /\ Len(chunks.chunks) >= 2

\* The two files of a location hold the same number of records.
PairConsistent(ip, mp) ==
    /\ disk.index[ip] # Absent
    /\ disk.meta[mp] # Absent
    /\ disk.index[ip].ntotal = Len(disk.meta[mp].json)

\* C27: after every save_index call, one that fails between the two writes
\* included, the index file and the metadata file of the location saved to
\* hold the same number of records. (Refuted: the index file is written in
\* place first, so a call that fails before the metadata is written leaves a
\* new index beside the old metadata, or beside none.)
C27_SavedPairConsistent ==
    out.op = "save" => PairConsistent(out.index_path, out.metadata_path)

\* C28: after a successful load_index, every search resolves each position the
\* index reports to a record of the loaded metadata list: it never fails on a
\* lookup outside the list, and each result carries the record of the vector
\* whose distance it reports. (Refuted: load_index returns a pair whose counts
\* differ, and metadata[idx] then raises IndexError.)
C28_SearchResolvesEveryPosition ==
    out.op = "search" =>
        /\ out.status # "IndexError"
        /\ \A r \in DOMAIN out.results :
              \E j \in DOMAIN corpus :
                  /\ corpus[j].chunk_id = out.results[r].chunk_id
                  /\ out.results[r].score = L2sqr(corpus[j].embedding, out.query)

\* C29: for 0 <= overlap < chunk_size, a chunk of the smart mode is longer
\* than chunk_size only if it holds a sentence unit that is itself longer
\* than chunk_size. (Refuted: the characters carried over from the previous
\* chunk are put in front of the next sentence without counting them.)
C29_LongChunkHoldsLongSentence ==
    (chunks # None /\ chunks.mode = "smart" /\ overlap < chunk_size) =>
        \A i \in DOMAIN chunks.chunks :
            Len(chunks.chunks[i]) > chunk_size =>
                \E k \in DOMAIN Sentences(text) :
                    /\ Len(Sentences(text)[k]) > chunk_size
                    /\ Contains(chunks.chunks[i], Strip(Sentences(text)[k]))

\* The window starts the simple mode's loop goes through on the text.
RECURSIVE WindowStarts(_)
WindowStarts(start) ==
    IF ~(start < Len(text)) THEN {}
    ELSE {start} \cup WindowStarts(NextStart(start, chunk_size, overlap))

NoBlankWindow ==
    \A start \in WindowStarts(0) : StripTruthy(Slice(text, start, start + chunk_size))

\* c[n:]
DropFirst(c, n) == SubSeq(c, n + 1, Len(c))

\* chunks[0] followed by every later chunk without its first n characters.
RECURSIVE Rejoin(_, _)
Rejoin(cs, n) ==
    IF Len(cs) <= 1 THEN Concat(cs)
    ELSE Rejoin(SubSeq(cs, 1, Len(cs) - 1), n) \o DropFirst(cs[Len(cs)], n)

\* C30: for a text longer than chunk_size with no whitespace-only window and
\* 0 <= overlap < chunk_size, the first chunk of the simple mode followed by
\* every later chunk without its first `overlap` characters is the text.
C30_SimpleModeLosesNoText ==
    (/\ chunks # None
     /\ chunks.mode = "simple"
     /\ Len(text) > chunk_size
     /\ overlap < chunk_size
     /\ NoBlankWindow)
    => Rejoin(chunks.chunks, overlap) = text

\* A text cut into overlapping windows, the last ones shorter than the
\* overlap, with a space inside.
C30_Witness ==
    /\ chunks # None
    /\ chunks.mode = "simple"
    /\ Len(text) > chunk_size
    /\ overlap > 0
    /\ overlap < chunk_size
    /\ NoBlankWindow
    /\ Len(chunks.chunks) >= 3
    /\ Len(chunks.chunks[Len(chunks.chunks)]) < overlap
    /\ \E i \in DOMAIN text : text[i] = " "
====
